---- MODULE Spec2Model ----
(***************************************************************************)
(* Model of src/main.go: a one-shot voice recorder.  main plays a cue      *)
(* tone, runs recordAudioWithDynamicNoiseFloor (the capture loop with its  *)
(* sliding-window noise-floor estimate and start/stop detector, cancelled  *)
(* by a SIGHUP listener goroutine through stopChan), plays the cue tone    *)
(* again and writes a WAV header followed by the captured bytes to stdout. *)
(*                                                                         *)
(* Numbers.  The float64 values of the program are kept as exact           *)
(* rationals with fixed denominators: an amplitude is |sample| in units of *)
(* 1/MaxInt16, and a window mean (currentNoiseFloor, noiseFloor,           *)
(* maxNoiseFloor) is the window sum in units of 1/(windowSize*MaxInt16).   *)
(* The comparisons of the source are cross-multiplied accordingly.         *)
(* 32-bit header fields are pairs <<hi, lo>> of 16-bit halves, so that     *)
(* the uint32 conversion and the uint32 addition wrap as in the program.   *)
(*                                                                         *)
(* Left out.  A SIGHUP that arrives before signal.Notify ends the process  *)
(* by the signal's default action; the model delivers signals only once    *)
(* the listener is set up.  binary.Write into a bytes.Buffer returns no    *)
(* error, so the log.Fatal after it has no action.  A failed write to      *)
(* stdout may have written a prefix: the model takes the empty one and the *)
(* longest one.  portaudio.Initialize and Terminate carry no state here.   *)
(***************************************************************************)
EXTENDS Integers, Sequences, FiniteSets, TLC

\* ------------------------------------------------------------------ bounds
\* The window length (2*16000 in the source), scaled down.
windowSize == 3
\* len(in), the block length (512 in the source), scaled down.
BlockSize == 2
\* SIGHUPs the environment delivers during one run.
MaxSignals == 2
\* The int16 values a device read may deliver.
Samples == {-2, 0}

\* ------------------------------------------------------- program constants
sampleRate == 16000
\* silenceCount > 5 ends the capture
silenceLimit == 5

\* Blocks read in one run: enough for a full window, the low evaluations
\* that end the capture, and one block more.
MaxBlocks == ((windowSize + silenceLimit + 1) \div BlockSize) + 1

VARIABLES
  pc,               \* position of the main goroutine
  stream,           \* input stream handle: "none", "open", "started", "closed"
  in,               \* the block buffer, 1..BlockSize -> int16
  idx,              \* position of the range loop over in
  audioBuffer,      \* bytes.Buffer: sequence of bytes
  window,           \* ring of amplitudes, 0..windowSize-1
  sampleCount, noiseFloor, maxNoiseFloor, recordingStarted, silenceCount,
  sigChan,          \* signals buffered in sigChan (capacity 1)
  stopChan,         \* TRUE once closed
  lpc,              \* position of the listener goroutine
  stdout,           \* bytes written to os.Stdout
  header,           \* the wavHeader value built by main
  sigsSent,         \* SIGHUPs delivered so far
  readLog,          \* history: every sample delivered by stream.Read, in order
  evalLog,          \* history: one record per window evaluation
  polls,            \* history: number of select polls of stopChan
  closeAt,          \* history: polls and completed reads when stopChan was closed,
                    \* and the number of close(stopChan) calls
  stopReason,       \* history: why the capture loop returned
  fatalAt,          \* history: which call ended in log.Fatal, after how many reads
  wavIn,            \* a buffer length in samples, as <<k \div 32768, k % 32768>>
  feed,             \* the samples the device will deliver; <<>>: any of Samples
  events            \* history: the calls of main that completed, in order

vars == <<pc, stream, in, idx, audioBuffer, window, sampleCount, noiseFloor,
          maxNoiseFloor, recordingStarted, silenceCount, sigChan, stopChan,
          lpc, stdout, header, sigsSent, readLog, evalLog, polls, closeAt,
          stopReason, fatalAt, wavIn, feed, events>>

captureVars == <<in, idx, audioBuffer, window, sampleCount, noiseFloor,
                 maxNoiseFloor, recordingStarted, silenceCount, readLog, evalLog>>
listenerVars == <<sigChan, stopChan, lpc, sigsSent, closeAt>>
\* what the main goroutine never writes
envVars == <<listenerVars, wavIn, feed>>

\* ------------------------------------------------------------ pure helpers
RECURSIVE SumTo(_, _)
SumTo(f, n) == IF n < 0 THEN 0 ELSE f[n] + SumTo(f, n - 1)

\* (variant: the sign is kept)
AmplitudeSigned(sample) == sample

\* math.Abs(float64(sample)) / math.MaxInt16, in units of 1/MaxInt16
Amplitude(sample) == IF sample < 0 THEN -sample ELSE sample

\* sum / float64(len(window)), in units of 1/(len(window)*MaxInt16)
calculateAverage(w) == SumTo(w, windowSize - 1)

\* window[sampleCount%windowSize] = amplitude
WriteSlot(w, n, a) == [w EXCEPT ![n % windowSize] = a]

\* (variant: one sample early)
ShouldEvaluateEarly(n) == n >= windowSize - 1

\* if sampleCount >= windowSize
ShouldEvaluate(n) == n >= windowSize

\* (variant: >= for >)
ExceedsOnsetOrEqual(c, f) == 2 * c >= 3 * f

\* currentNoiseFloor > noiseFloor*1.5
ExceedsOnset(c, f) == 2 * c > 3 * f

\* (variant: compared with the previous mean, not with the maximum)
NewMaxOverPrevious(c, m) == c > noiseFloor

\* currentNoiseFloor > maxNoiseFloor
NewMax(c, m) == c > m

\* (variant: <= for <)
BelowHalfOrEqual(c, m) == 2 * c <= m

\* (variant: no band, every evaluation that is no new maximum counts)
BelowHalfOrBand(c, m) == c <= m

\* currentNoiseFloor < maxNoiseFloor*0.5
BelowHalf(c, m) == 2 * c < m

\* (variant: >= 5 for > 5)
SilenceExceededEarly(s) == s >= silenceLimit

\* silenceCount > 5
SilenceExceeded(s) == s > silenceLimit

\* (variant: the maximum starts from the old floor)
OnsetMaxFromFloor(c, f) == f

\* maxNoiseFloor = currentNoiseFloor, at the onset
OnsetMax(c, f) == c

\* (variant: quiet evaluations count, and stop the capture, while Armed too)
DetectCountsWhileArmed(c, f, m, rec, sil) ==
  IF ~rec /\ ExceedsOnset(c, f)
    THEN [rec |-> TRUE, max |-> c, sil |-> sil, stop |-> FALSE]
    ELSE IF NewMax(c, m)
           THEN [rec |-> rec, max |-> c, sil |-> 0, stop |-> FALSE]
           ELSE IF 2 * c <= m
                  THEN [rec |-> rec, max |-> m, sil |-> sil + 1,
                        stop |-> SilenceExceeded(sil + 1)]
                  ELSE [rec |-> rec, max |-> m, sil |-> 0, stop |-> FALSE]

\* One pass of the detector (the body of "if sampleCount >= windowSize"
\* without the final assignment to noiseFloor).
Detect(c, f, m, rec, sil) ==
  IF ~rec
    THEN IF ExceedsOnset(c, f)
           THEN [rec |-> TRUE, max |-> OnsetMax(c, f), sil |-> sil, stop |-> FALSE]
           ELSE [rec |-> FALSE, max |-> m, sil |-> sil, stop |-> FALSE]
    ELSE IF NewMax(c, m)
           THEN [rec |-> TRUE, max |-> c, sil |-> 0, stop |-> FALSE]
           ELSE IF BelowHalf(c, m)
                  THEN [rec |-> TRUE, max |-> m, sil |-> sil + 1,
                        stop |-> SilenceExceeded(sil + 1)]
                  ELSE [rec |-> TRUE, max |-> m, sil |-> 0, stop |-> FALSE]

\* (variant: the floor follows the mean only while Armed)
NextNoiseFloorArmedOnly(c, f, d) == IF d.stop \/ d.rec THEN f ELSE c

\* noiseFloor = currentNoiseFloor, not reached when the pass returned
NextNoiseFloor(c, f, d) == IF d.stop THEN f ELSE c

\* binary.LittleEndian encoding of one int16
EncodeSample(s) ==
  LET u == (s + 65536) % 65536 IN <<u % 256, u \div 256>>

RECURSIVE EncodeBlock(_)
EncodeBlock(blk) ==
  IF Len(blk) = 0 THEN <<>> ELSE EncodeSample(Head(blk)) \o EncodeBlock(Tail(blk))

\* (variant: the block replaces what the buffer held)
AppendBlockOverwrites(buf, blk) == EncodeBlock(blk)

\* (variant: the last sample of the block is not written)
AppendBlockShort(buf, blk) == buf \o EncodeBlock(SubSeq(blk, 1, Len(blk) - 1))

\* binary.Write(audioBuffer, binary.LittleEndian, in)
AppendBlock(buf, blk) == buf \o EncodeBlock(blk)

\* (variant: the first pass reads before it looks at stopChan)
PollStopsAfterFirstRead(closed) == closed /\ readLog # <<>>

\* (variant: the stop request is honoured only while recording)
PollStopsWhenRecording(closed) == closed /\ recordingStarted

\* The select on stopChan: the closed channel is ready, so its case is taken.
PollStops(closed) == closed

\* ------------------------------------------------------------- WAV header
\* An int as two halves <<hi, lo>>, lo in 0..65535 (hi is unbounded: an int
\* of the program has 64 bits).
IntHalves(n) == <<n \div 65536, n % 65536>>

\* uint32(x)
Uint32(x) == <<x[1] % 65536, x[2]>>

\* a + b on uint32
Add32(a, b) ==
  LET lo == a[2] + b[2]
      hi == a[1] + b[1] + (lo \div 65536)
  IN <<hi % 65536, lo % 65536>>

createWAVHeader(dataSize) ==
  [ChunkID |-> <<82, 73, 70, 70>>,
   ChunkSize |-> Add32(IntHalves(36), dataSize),
   Format |-> <<87, 65, 86, 69>>,
   Subchunk1ID |-> <<102, 109, 116, 32>>,
   Subchunk1Size |-> IntHalves(16),
   AudioFormat |-> 1,
   NumChannels |-> 1,
   SampleRate |-> IntHalves(sampleRate),
   ByteRate |-> IntHalves(sampleRate * 2),
   BlockAlign |-> 2,
   BitsPerSample |-> 16,
   Subchunk2ID |-> <<100, 97, 116, 97>>,
   Subchunk2Size |-> dataSize]

NoHeader == [ChunkID |-> <<>>]

LE16(v) == <<v % 256, v \div 256>>
LE32(h) == LE16(h[2]) \o LE16(h[1])

\* binary.Write(os.Stdout, binary.LittleEndian, header): the fields in order
HeaderBytes(h) ==
  h.ChunkID \o LE32(h.ChunkSize) \o h.Format \o h.Subchunk1ID
    \o LE32(h.Subchunk1Size) \o LE16(h.AudioFormat) \o LE16(h.NumChannels)
    \o LE32(h.SampleRate) \o LE32(h.ByteRate) \o LE16(h.BlockAlign)
    \o LE16(h.BitsPerSample) \o h.Subchunk2ID \o LE32(h.Subchunk2Size)

\* ------------------------------------------------------------------- Init
\* The state before main's first call, but for pc and wavIn
InitSession ==
  /\ stream = "none"
  /\ in = [i \in 1..BlockSize |-> 0]
  /\ idx = 0
  /\ audioBuffer = <<>>
  /\ window = [i \in 0..(windowSize - 1) |-> 0]
  /\ sampleCount = 0
  /\ noiseFloor = 0
  /\ maxNoiseFloor = 0
  /\ recordingStarted = FALSE
  /\ silenceCount = 0
  /\ sigChan = 0
  /\ stopChan = FALSE
  /\ lpc = "none"
  /\ stdout = <<>>
  /\ header = NoHeader
  /\ sigsSent = 0
  /\ readLog = <<>>
  /\ evalLog = <<>>
  /\ polls = 0
  /\ closeAt = [polls |-> -1, reads |-> -1, pc |-> "none", closes |-> 0]
  /\ stopReason = "none"
  /\ fatalAt = [where |-> "none", reads |-> 0]
  /\ events = <<>>

Init ==
  /\ pc = "beep1"
  /\ wavIn = <<0, 0>>
  /\ feed = <<>>
  /\ InitSession

Alive == pc \notin {"done", "fatal"}
BlocksRead == Len(readLog) \div BlockSize

\* The blocks stream.Read() may deliver next, and how many the run reads.
DeviceBlocks ==
  IF feed = <<>>
    THEN [1..BlockSize -> Samples]
    ELSE {[i \in 1..BlockSize |-> feed[Len(readLog) + i]]}
BlockLimit == IF feed = <<>> THEN MaxBlocks ELSE Len(feed) \div BlockSize

\* log.Fatal: os.Exit(1), deferred calls do not run
Fatal(where) ==
  /\ pc' = "fatal"
  /\ fatalAt' = [where |-> where, reads |-> BlocksRead]

\* ------------------------------------------------------------------- main
\* playBeep(beep), before and after the capture
PlayBeepOk ==
  /\ pc \in {"beep1", "beep2"}
  /\ events' = Append(events, "beep")
  /\ pc' = IF pc = "beep1" THEN "open" ELSE "header"
  /\ UNCHANGED <<stream, captureVars, envVars, stdout, header, polls,
                 stopReason, fatalAt>>

PlayBeepFail ==
  /\ pc \in {"beep1", "beep2"}
  /\ Fatal(pc)
  /\ UNCHANGED <<events, stream, captureVars, envVars, stdout, header, polls,
                 stopReason>>

\* portaudio.OpenDefaultStream(1, 0, sampleRate, len(in), in)
OpenStreamOk ==
  /\ pc = "open"
  /\ events' = Append(events, "open")
  /\ stream' = "open"
  /\ pc' = "start"
  /\ UNCHANGED <<captureVars, envVars, stdout, header, polls, stopReason,
                 fatalAt>>

OpenStreamFail ==
  /\ pc = "open"
  /\ Fatal("open")
  /\ UNCHANGED <<events, stream, captureVars, envVars, stdout, header, polls,
                 stopReason>>

\* stream.Start(), then the locals, signal.Notify and the listener goroutine
StartStreamOk ==
  /\ pc = "start"
  /\ stream' = "started"
  /\ lpc' = "waiting"
  /\ pc' = "poll"
  /\ UNCHANGED <<events, captureVars, sigChan, stopChan, sigsSent, closeAt, wavIn,
                 feed, stdout, header, polls, stopReason, fatalAt>>

StartStreamFail ==
  /\ pc = "start"
  /\ Fatal("start")
  /\ UNCHANGED <<events, stream, captureVars, envVars, stdout, header, polls,
                 stopReason>>

\* (variant: the end tone is left out)
AfterReturnNoTone == "header"

\* playBeep(beep) follows recordAudioWithDynamicNoiseFloor()
AfterReturn == "beep2"

\* return audioBuffer: the deferred stream.Close() runs
ReturnBuffer(why) ==
  /\ stream' = "closed"
  /\ stopReason' = why
  /\ events' = Append(events, "return")
  /\ pc' = AfterReturn

\* select { case <-stopChan: return audioBuffer; default: stream.Read() ... }
Poll ==
  /\ pc = "poll"
  /\ polls' = polls + 1
  /\ IF PollStops(stopChan)
       THEN ReturnBuffer("interrupt")
       ELSE /\ BlocksRead < BlockLimit
            /\ pc' = "read"
            /\ UNCHANGED <<stream, stopReason, events>>
  /\ UNCHANGED <<captureVars, envVars, stdout, header, fatalAt>>

\* (variant: the error is logged and the loop goes on)
ReadErrorContinue == "poll"

\* if err != nil { log.Fatal(err) } after stream.Read()
ReadErrorNext == "fatal"

\* stream.Read() returns a block; binary.Write appends it to audioBuffer
ReadOk ==
  /\ pc = "read"
  /\ \E blk \in DeviceBlocks :
       /\ in' = blk
       /\ audioBuffer' = AppendBlock(audioBuffer, blk)
       /\ readLog' = readLog \o blk
  /\ idx' = 1
  /\ pc' = "proc"
  /\ UNCHANGED <<events, stream, window, sampleCount, noiseFloor, maxNoiseFloor,
                 recordingStarted, silenceCount, evalLog, envVars, stdout,
                 header, polls, stopReason, fatalAt>>

ReadFail ==
  /\ pc = "read"
  /\ pc' = ReadErrorNext
  /\ fatalAt' = [where |-> "read", reads |-> BlocksRead]
  /\ UNCHANGED <<events, stream, captureVars, envVars, stdout, header, polls,
                 stopReason>>

\* One iteration of "for _, sample := range in"
ProcessSample ==
  /\ pc = "proc"
  /\ LET amplitude == Amplitude(in[idx])
         w2 == WriteSlot(window, sampleCount, amplitude)
         n2 == sampleCount + 1
         c == calculateAverage(w2)
         d == Detect(c, noiseFloor, maxNoiseFloor, recordingStarted, silenceCount)
     IN /\ window' = w2
        /\ sampleCount' = n2
        /\ IF ShouldEvaluate(n2)
             THEN /\ recordingStarted' = d.rec
                  /\ maxNoiseFloor' = d.max
                  /\ silenceCount' = d.sil
                  /\ noiseFloor' = NextNoiseFloor(c, noiseFloor, d)
                  /\ evalLog' = Append(evalLog,
                        [n |-> n2, c |-> c, floor |-> noiseFloor,
                         max |-> maxNoiseFloor, rec |-> recordingStarted,
                         recAfter |-> d.rec, stop |-> d.stop])
                  /\ IF d.stop
                       THEN /\ ReturnBuffer("detector")
                            /\ idx' = idx
                       ELSE /\ idx' = IF idx = BlockSize THEN 0 ELSE idx + 1
                            /\ pc' = IF idx = BlockSize THEN "poll" ELSE "proc"
                            /\ UNCHANGED <<stream, stopReason, events>>
             ELSE /\ idx' = IF idx = BlockSize THEN 0 ELSE idx + 1
                  /\ pc' = IF idx = BlockSize THEN "poll" ELSE "proc"
                  /\ UNCHANGED <<recordingStarted, maxNoiseFloor, silenceCount,
                                 noiseFloor, evalLog, stream, stopReason,
                                 events>>
  /\ UNCHANGED <<in, audioBuffer, readLog, envVars, stdout, header, polls,
                 fatalAt>>

\* header := createWAVHeader(uint32(audioBuffer.Len())); binary.Write(os.Stdout, ...)
WriteHeaderOk ==
  /\ pc = "header"
  /\ events' = Append(events, "header")
  /\ header' = createWAVHeader(Uint32(IntHalves(Len(audioBuffer))))
  /\ stdout' = stdout \o HeaderBytes(header')
  /\ pc' = "copy"
  /\ UNCHANGED <<stream, captureVars, envVars, polls, stopReason, fatalAt>>

WriteHeaderFail ==
  /\ pc = "header"
  /\ header' = createWAVHeader(Uint32(IntHalves(Len(audioBuffer))))
  /\ \E n \in {0, Len(HeaderBytes(header')) - 1} :
       stdout' = stdout \o SubSeq(HeaderBytes(header'), 1, n)
  /\ Fatal("header")
  /\ UNCHANGED <<events, stream, captureVars, envVars, polls, stopReason>>

\* io.Copy(os.Stdout, audioBuffer): the buffer is drained into stdout
CopyOk ==
  /\ pc = "copy"
  /\ events' = Append(events, "data")
  /\ stdout' = stdout \o audioBuffer
  /\ audioBuffer' = <<>>
  /\ pc' = "done"
  /\ UNCHANGED <<stream, in, idx, window, sampleCount, noiseFloor, maxNoiseFloor,
                 recordingStarted, silenceCount, readLog, evalLog, envVars,
                 header, polls, stopReason, fatalAt>>

CopyFail ==
  /\ pc = "copy"
  /\ UNCHANGED stdout
  /\ Fatal("copy")
  /\ UNCHANGED <<events, stream, captureVars, envVars, header, polls, stopReason>>

\* --------------------------------------------------- signal and listener
\* The OS delivers SIGHUP; the signal package sends on sigChan without blocking
SendSIGHUP ==
  /\ Alive
  /\ lpc # "none"
  /\ sigsSent < MaxSignals
  /\ sigsSent' = sigsSent + 1
  /\ sigChan' = 1
  /\ UNCHANGED <<events, pc, stream, captureVars, stopChan, lpc, closeAt, wavIn, feed,
                 stdout, header, polls, stopReason, fatalAt>>

\* <-sigChan
ListenerRecv ==
  /\ Alive
  /\ lpc = "waiting"
  /\ sigChan = 1
  /\ sigChan' = 0
  /\ lpc' = "received"
  /\ UNCHANGED <<events, pc, stream, captureVars, stopChan, sigsSent, closeAt, wavIn,
                 feed, stdout, header, polls, stopReason, fatalAt>>

\* (variant: the listener waits for the next signal)
ListenerLoops == "waiting"

\* the goroutine's function ends after close(stopChan)
ListenerAfterClose == "exited"

\* close(stopChan)
ListenerClose ==
  /\ Alive
  /\ lpc = "received"
  /\ stopChan' = TRUE
  /\ lpc' = ListenerAfterClose
  /\ closeAt' = [polls |-> polls, reads |-> BlocksRead, pc |-> pc,
                 closes |-> closeAt.closes + 1]
  /\ UNCHANGED <<events, pc, stream, captureVars, sigChan, sigsSent, wavIn, feed,
                 stdout, header, polls, stopReason, fatalAt>>

Next ==
  \/ PlayBeepOk \/ PlayBeepFail
  \/ OpenStreamOk \/ OpenStreamFail
  \/ StartStreamOk \/ StartStreamFail
  \/ Poll \/ ReadOk \/ ReadFail \/ ProcessSample
  \/ WriteHeaderOk \/ WriteHeaderFail
  \/ CopyOk \/ CopyFail
  \/ SendSIGHUP \/ ListenerRecv \/ ListenerClose

Spec == Init /\ [][Next]_vars

\* ------------------------------------------ the header as a pure function
\* Buffer lengths in samples, k = wavIn[1]*32768 + wavIn[2]: whole blocks of
\* 512 samples, short captures and captures around 2^31 samples (2^32
\* bytes), and the 2 s buffer of 32000 samples.
WavInputs ==
  ({0, 1, 65535, 65536} \X {512 * j : j \in 0..63}) \cup {<<0, 32000>>}

\* audioBuffer.Len() for a buffer of wavIn samples: 2 bytes a sample
WavLen == <<wavIn[1], 2 * wavIn[2]>>

InitWav ==
  /\ pc = "wav"
  /\ wavIn \in WavInputs
  /\ feed = <<>>
  /\ InitSession

\* header := createWAVHeader(uint32(audioBuffer.Len()))
WavCreate ==
  /\ pc = "wav"
  /\ header' = createWAVHeader(Uint32(WavLen))
  /\ pc' = "wavheader"
  /\ UNCHANGED <<events, stream, captureVars, envVars, stdout, polls, stopReason, fatalAt>>

\* binary.Write(os.Stdout, binary.LittleEndian, header)
WavWrite ==
  /\ pc = "wavheader"
  /\ stdout' = HeaderBytes(header)
  /\ pc' = "wavdone"
  /\ UNCHANGED <<events, stream, captureVars, envVars, header, polls, stopReason, fatalAt>>

NextWav == WavCreate \/ WavWrite

SpecWav == InitWav /\ [][NextWav]_vars
\* ------------------------------------------- one input, without interrupt
\* The input "amplitude rising from 0.01 to 0.5 over one window, then flat at
\* 0.5 for 6 further windows", as int16 samples (amplitude * 32767, rounded
\* either way), of either sign or of alternating sign; the last block is
\* completed at the flat level.
RampLen == ((7 * windowSize + BlockSize - 1) \div BlockSize) * BlockSize
RampLevel(lo, hi, i) ==
  IF i <= windowSize THEN lo + ((hi - lo) * (i - 1)) \div (windowSize - 1) ELSE hi
RampSign(p, i) ==
  IF p = "pos" THEN 1 ELSE IF p = "neg" THEN -1 ELSE IF i % 2 = 0 THEN 1 ELSE -1
RampInputs ==
  {[i \in 1..RampLen |-> RampSign(p, i) * RampLevel(lo, hi, i)] :
     lo \in {327, 328}, hi \in {16383, 16384}, p \in {"pos", "neg", "alt"}}

InitRamp ==
  /\ pc = "beep1"
  /\ wavIn = <<0, 0>>
  /\ feed \in RampInputs
  /\ InitSession

\* No SIGHUP is delivered and no call fails.
NextRamp ==
  \/ PlayBeepOk \/ OpenStreamOk \/ StartStreamOk
  \/ Poll \/ ReadOk \/ ProcessSample

SpecRamp == InitRamp /\ [][NextRamp]_vars

\* ================================================================= claims
InLoop == pc \in {"poll", "read", "proc"}
\* the capture loop has returned and the buffer has not been drained yet
Returned == pc \in {"beep2", "header", "copy"}
Evals == 1..Len(evalLog)

\* ---------------------------------------------------------------------- C1
\* C1: after N samples were fed to the estimator the number of window
\* evaluations is floor(N / windowSize), and an evaluation happens only when
\* the sample counter is a multiple of windowSize.
C1_EvaluationsPerWindow ==
  /\ Len(evalLog) = sampleCount \div windowSize
  /\ \A i \in Evals : evalLog[i].n % windowSize = 0

\* What the code does: one evaluation for every sample from the windowSize-th on.
EvaluationsPerSample ==
  /\ Len(evalLog) = IF sampleCount < windowSize THEN 0 ELSE sampleCount - windowSize + 1
  /\ \A i \in Evals : evalLog[i].n = windowSize + i - 1

\* ---------------------------------------------------------------------- C2
\* An evaluation in Recording whose mean is below half the running maximum.
LowEval(e) == e.rec /\ ~(e.c > e.max) /\ 2 * e.c < e.max

RECURSIVE TrailingLow(_)
TrailingLow(log) ==
  IF Len(log) = 0 \/ ~LowEval(log[Len(log)])
    THEN 0
    ELSE 1 + TrailingLow(SubSeq(log, 1, Len(log) - 1))

PrevMean(i) == IF i = 1 THEN 0 ELSE evalLog[i - 1].c

\* C3: the detector goes from Armed to Recording only at an evaluation whose
\* mean c is strictly greater than 1.5 times the mean of the evaluation just
\* before it (0 if none); an evaluation with c <= 1.5 times that leaves it
\* Armed, and nothing but an evaluation changes recordingStarted.
C3_OnsetOnlyAboveFloor ==
  /\ \A i \in Evals :
       ~evalLog[i].rec => (evalLog[i].recAfter <=> 2 * evalLog[i].c > 3 * PrevMean(i))
  /\ recordingStarted = (evalLog # <<>> /\ evalLog[Len(evalLog)].recAfter)

C3_Witness ==
  \E i \in Evals : i > 1 /\ ~evalLog[i].rec /\ evalLog[i].recAfter /\ recordingStarted

\* ---------------------------------------------------------------------- C4
AllZeroBefore(i) == \A j \in 1..(i - 1) : evalLog[j].c = 0

\* C4: from noise floor 0 and Armed, the first evaluation with a non-zero
\* mean moves the detector to Recording; while every evaluation mean is 0
\* the detector stays Armed and the loop does not stop on its own.
C4_FirstNonZeroStarts ==
  /\ \A i \in Evals :
       (AllZeroBefore(i) /\ evalLog[i].c # 0) => (~evalLog[i].rec /\ evalLog[i].recAfter)
  /\ AllZeroBefore(Len(evalLog) + 1) => (~recordingStarted /\ stopReason # "detector")

C4_Witness ==
  /\ \E i \in Evals : i > 1 /\ AllZeroBefore(i) /\ evalLog[i].c # 0
  /\ recordingStarted

\* ---------------------------------------------------------------------- C5
\* the int16 held in bytes 2i-1 and 2i of buf, little-endian
SampleAt(buf, i) ==
  LET u == buf[2 * i - 1] + 256 * buf[2 * i]
  IN IF u >= 32768 THEN u - 65536 ELSE u

HoldsAllRead(buf) ==
  /\ Len(buf) = 2 * Len(readLog)
  /\ \A i \in 1..Len(readLog) : SampleAt(buf, i) = readLog[i]

\* C5: when the loop returns on the detector's Stop, the returned buffer
\* holds every sample of every block read, in order, the samples of the last
\* block after the one that decided Stop included.
C5_StopKeepsWholeBlock ==
  (stopReason = "detector" /\ Returned) =>
     (HoldsAllRead(audioBuffer) /\ Len(readLog) % BlockSize = 0)

C5_Witness ==
  /\ stopReason = "detector" /\ Returned
  /\ sampleCount < Len(readLog)
  /\ \E i \in 1..Len(readLog) : i > sampleCount /\ readLog[i] # 0

\* ---------------------------------------------------------------------- C6
HeaderOfEmpty == header.Subchunk2Size = <<0, 0>> /\ header.ChunkSize = <<0, 36>>

\* C6 as stated: if stopChan is closed before any block read has completed
\* (also while the first read is in flight), the loop returns an empty
\* buffer and the header has dataSize 0 and chunk size 36.
C6_EmptyIfClosedBeforeFirstReadDone ==
  (stopReason = "interrupt" /\ closeAt.reads = 0) =>
     /\ Returned => Len(audioBuffer) = 0
     /\ header # NoHeader => HeaderOfEmpty

\* C6 amended: if stopChan is closed before the loop's first poll, the loop
\* returns an empty buffer and the header has dataSize 0 and chunk size 36
\* (bytes 4..7 = 36, bytes 40..43 = 0); if it is closed while the first read
\* is in flight, that block is still appended and the returned buffer holds
\* exactly that one block.
C6_EmptyIfClosedBeforeFirstPoll ==
  /\ (stopReason = "interrupt" /\ closeAt.polls = 0) =>
       /\ Returned => Len(audioBuffer) = 0
       /\ header # NoHeader => HeaderOfEmpty
       /\ pc \in {"copy", "done"} =>
            /\ Len(stdout) = 44
            /\ SubSeq(stdout, 5, 8) = <<36, 0, 0, 0>>
            /\ SubSeq(stdout, 41, 44) = <<0, 0, 0, 0>>
  /\ (stopReason = "interrupt" /\ closeAt.reads = 0 /\ closeAt.polls > 0) =>
       /\ closeAt.pc = "read"
       /\ Returned => Len(audioBuffer) = 2 * BlockSize

C6_Witness ==
  stopReason = "interrupt" /\ closeAt.polls = 0 /\ pc = "done"

\* ---------------------------------------------------------------------- C7
ReadsStarted ==
  BlocksRead + (IF pc = "read" \/ fatalAt.where = "read" THEN 1 ELSE 0)

\* C7: stopChan is polled once per block, before the read; once it is
\* closed at most one more block (the read in flight) is appended, no poll
\* after the close goes on to read, and the loop returns at the first poll
\* after the close, whatever the detector's state.
C7_PollOncePerBlock ==
  /\ polls = ReadsStarted + (IF stopReason = "interrupt" THEN 1 ELSE 0)
  /\ pc = "proc" => idx \in 1..BlockSize
  /\ (stopChan /\ closeAt.pc \in {"poll", "read", "proc"}) =>
       /\ BlocksRead - closeAt.reads = (IF closeAt.pc = "read" /\ pc # "read"
                                           /\ fatalAt.where # "read" THEN 1 ELSE 0)
       /\ InLoop => polls = closeAt.polls
       /\ stopReason = "interrupt" => polls = closeAt.polls + 1

C7_Witness ==
  /\ stopReason = "interrupt"
  /\ closeAt.pc = "read"
  /\ recordingStarted /\ silenceCount > 0

\* ---------------------------------------------------------------------- C8
\* C8: the input stream opened for the session is closed on every exit path
\* of the session: return by Stop, return by interrupt, and the fatal aborts.
C8_StreamClosedOnEveryExit ==
  /\ (stopReason # "none") => stream = "closed"
  /\ pc \in {"done", "fatal"} => stream \in {"none", "closed"}

\* --------------------------------------------------------------------- C10
\* C10: after a failed block read nothing is ever written to stdout, no
\* header is built, and no further block is read.
C10_ReadFailureDiscards ==
  fatalAt.where = "read" =>
     /\ pc = "fatal"
     /\ stdout = <<>>
     /\ header = NoHeader
     /\ BlocksRead = fatalAt.reads
     /\ polls = fatalAt.reads + 1

C10_Witness ==
  fatalAt.where = "read" /\ fatalAt.reads > 0 /\ recordingStarted /\ pc = "fatal"

\* ---------------------------------------------------------------------- C9
\* <<hi, lo>> with the carry of lo moved into hi, hi not reduced
Carry(x) == <<x[1] + (x[2] \div 65536), x[2] % 65536>>
\* 2k and 36 + 2k for the k samples of wavIn, as numbers (not reduced mod 2^32)
TwoK == Carry(<<wavIn[1], 2 * wavIn[2]>>)
TwoKPlus36 == Carry(<<wavIn[1], 2 * wavIn[2] + 36>>)
\* the uint32 at bytes off+1..off+4 of b, little-endian, as <<hi, lo>>
U32At(b, off) == <<b[off + 3] + 256 * b[off + 4], b[off + 1] + 256 * b[off + 2]>>
U16At(b, off) == b[off + 1] + 256 * b[off + 2]

\* C9: for a buffer of k samples the header has data chunk size 2k and chunk
\* size 36 + 2k, sample rate 16000, 1 channel and 16 bits per sample, in the
\* header value and in the 44 bytes written.
C9_HeaderSizes ==
  /\ pc \in {"wavheader", "wavdone"} =>
       /\ header.Subchunk2Size = TwoK
       /\ header.ChunkSize = TwoKPlus36
       /\ header.SampleRate = <<0, 16000>>
       /\ header.NumChannels = 1
       /\ header.BitsPerSample = 16
  /\ pc = "wavdone" =>
       /\ Len(stdout) = 44
       /\ U32At(stdout, 40) = TwoK
       /\ U32At(stdout, 4) = TwoKPlus36
       /\ U32At(stdout, 24) = <<0, 16000>>
       /\ U16At(stdout, 22) = 1
       /\ U16At(stdout, 34) = 16

\* What holds of the code: the same, for buffers with 36 + 2k < 2^32 (and
\* for the 2 s buffer of 32000 samples: 64000 and 64036).
C9_HeaderSizesInRange ==
  (TwoKPlus36[1] < 65536) => C9_HeaderSizes

C9_Example32000 ==
  (wavIn = <<0, 32000>> /\ pc = "wavdone") =>
     /\ SubSeq(stdout, 41, 44) = <<0, 250, 0, 0>>
     /\ SubSeq(stdout, 5, 8) = <<36, 250, 0, 0>>
\* --------------------------------------------------------------------- C11
Stops == {i \in Evals : evalLog[i].stop}

\* C11 as stated: on the ramp-then-flat input with no interrupt, exactly one
\* Stop is emitted, at the 6th flat window (the sample that completes it).
C11_OneStopAtSixthFlatWindow ==
  /\ \A i \in Stops : evalLog[i].n = 7 * windowSize
  /\ sampleCount >= 7 * windowSize =>
       (Cardinality(Stops) = 1 /\ stopReason = "detector")

\* C11 amended: on the ramp-then-flat input with no interrupt the capture
\* emits no Stop: the detector starts Recording at the first evaluation,
\* every later evaluation sets a new maximum or equals the maximum (never
\* below half of it), silenceCount stays 0, and once the window is flat the
\* mean and the maximum are the flat level.
C11_NoStopOnRampThenFlat ==
  /\ Stops = {} /\ stopReason = "none" /\ silenceCount = 0
  /\ \A i \in Evals :
       /\ evalLog[i].recAfter
       /\ evalLog[i].rec <=> (i > 1)
       /\ i > 1 => (evalLog[i].c >= evalLog[i].max /\ ~LowEval(evalLog[i]))
       /\ evalLog[i].n >= 2 * windowSize =>
            \E hi \in {16383, 16384} : evalLog[i].c = windowSize * hi
  /\ sampleCount >= 2 * windowSize => maxNoiseFloor = noiseFloor

C11_Witness ==
  /\ feed # <<>>
  /\ sampleCount = RampLen /\ pc = "poll"
  /\ recordingStarted /\ Stops = {}
  /\ Len(evalLog) >= 6 * windowSize
\* --------------------------------------------------------------------- C12
\* C12: stopChan changes at most once, from open to closed, and stays
\* closed: however many SIGHUPs are delivered the listener closes it at most
\* once, and the capture loop never reopens it.
C12_StopChanClosedOnce ==
  /\ closeAt.closes <= 1
  /\ stopChan <=> (closeAt.closes = 1)
  /\ stopChan <=> (lpc = "exited")
  /\ ~stopChan => (stopReason # "interrupt" /\ closeAt.pc = "none")

C12_Witness ==
  /\ stopChan /\ closeAt.closes = 1
  /\ sigsSent = 2 /\ sigChan = 1
  /\ stopReason = "interrupt"
\* --------------------------------------------------------------------- C13
AbsOf(x) == IF x < 0 THEN 0 - x ELSE x
\* the sum of the amplitudes of samples a..b of the read history
RECURSIVE AmpSum(_, _)
AmpSum(a, b) == IF a > b THEN 0 ELSE AbsOf(readLog[b]) + AmpSum(a, b - 1)

\* C13: at every evaluation the ring holds the amplitudes of the windowSize
\* most recently fed samples, every slot written, so the mean is the mean of
\* the last windowSize samples; no evaluation happens before windowSize
\* samples were fed; the ring has windowSize slots, indexed 0..windowSize-1.
C13_WindowIsLastSamples ==
  /\ DOMAIN window = 0..(windowSize - 1)
  /\ sampleCount <= Len(readLog)
  /\ \A j \in 1..sampleCount :
       j > sampleCount - windowSize => window[(j - 1) % windowSize] = AbsOf(readLog[j])
  /\ \A i \in Evals :
       /\ evalLog[i].n >= windowSize
       /\ evalLog[i].c = AmpSum(evalLog[i].n - windowSize + 1, evalLog[i].n)

C13_Witness ==
  /\ sampleCount > 2 * windowSize
  /\ \A k \in 0..(windowSize - 1) : window[k] # 0
  /\ \E i \in Evals : evalLog[i].c = 0
\* --------------------------------------------------------------------- C14
\* the last evaluation that did not end the capture (0: none)
LastKept ==
  IF evalLog # <<>> /\ evalLog[Len(evalLog)].stop THEN Len(evalLog) - 1 ELSE Len(evalLog)

\* C14: after every evaluation that does not end the capture, Armed or
\* Recording, whichever branch, noiseFloor is that evaluation's mean; in
\* between (and before the first one) it does not change.
C14_FloorIsLastMean ==
  /\ noiseFloor = (IF LastKept = 0 THEN 0 ELSE evalLog[LastKept].c)
  /\ \A i \in Evals : evalLog[i].floor = PrevMean(i)

C14_Witness ==
  /\ recordingStarted /\ silenceCount > 0 /\ InLoop
  /\ noiseFloor # maxNoiseFloor
  /\ \E i \in Evals : evalLog[i].rec /\ evalLog[i].c > evalLog[i].max
  /\ \E i \in Evals : evalLog[i].rec /\ evalLog[i].c < evalLog[i].max /\ ~LowEval(evalLog[i])
\* --------------------------------------------------------------------- C15
\* An evaluation in Recording with 0.5 * max <= c <= max.
BandEval(e) == e.rec /\ 2 * e.c >= e.max /\ e.c <= e.max

\* C15: in Recording an evaluation with 0.5 * max <= c <= max (c equal to
\* 0.5 * max included) sets silenceCount to 0 and leaves maxNoiseFloor as it
\* was, cancelling whatever run of low evaluations came before.
C15_BandResetsSilence ==
  (evalLog # <<>> /\ BandEval(evalLog[Len(evalLog)])) =>
     /\ silenceCount = 0
     /\ maxNoiseFloor = evalLog[Len(evalLog)].max
     /\ ~evalLog[Len(evalLog)].stop

C15_Witness ==
  /\ Len(evalLog) > 1
  /\ BandEval(evalLog[Len(evalLog)])
  /\ 2 * evalLog[Len(evalLog)].c = evalLog[Len(evalLog)].max
  /\ TrailingLow(SubSeq(evalLog, 1, Len(evalLog) - 1)) >= 2
  /\ silenceCount = 0
\* --------------------------------------------------------------------- C16
OnsetEval(e) == ~e.rec /\ e.recAfter

\* C16: right after the evaluation that moves the detector from Armed to
\* Recording, maxNoiseFloor is that evaluation's mean and silenceCount is 0;
\* silenceCount is 0 in every state where the detector is Armed.
C16_OnsetStartsClean ==
  /\ ~recordingStarted => silenceCount = 0
  /\ (evalLog # <<>> /\ OnsetEval(evalLog[Len(evalLog)])) =>
       /\ recordingStarted
       /\ maxNoiseFloor = evalLog[Len(evalLog)].c
       /\ silenceCount = 0

C16_Witness ==
  /\ Len(evalLog) > 1
  /\ OnsetEval(evalLog[Len(evalLog)])
  /\ maxNoiseFloor > 0 /\ silenceCount = 0
\* --------------------------------------------------------------------- C17
MainOrder == <<"beep", "open", "return", "beep", "header", "data">>

\* C17: the calls of main complete in one order: the start tone, then the
\* input stream is opened and samples are captured, the end tone only after
\* the capture loop returned, the header only after the end tone and for the
\* final buffer length, the sample bytes only after the header.
C17_StepsInOrder ==
  /\ Len(events) <= Len(MainOrder) /\ events = SubSeq(MainOrder, 1, Len(events))
  /\ (stream # "none" \/ readLog # <<>>) => Len(events) >= 2
  /\ stopReason # "none" <=> Len(events) >= 3
  /\ (stdout # <<>> \/ header # NoHeader) =>
       (Len(events) >= 4 /\ header.Subchunk2Size = <<0, 2 * Len(readLog)>>)
  /\ Len(stdout) > 44 => Len(events) = 6
  /\ pc = "done" <=> events = MainOrder
  /\ pc = "done" =>
       /\ SubSeq(stdout, 1, 44) = HeaderBytes(header)
       /\ HoldsAllRead(SubSeq(stdout, 45, Len(stdout)))

C17_Witness ==
  pc = "done" /\ events = MainOrder /\ Len(stdout) > 44 /\ stopReason = "detector"
\* --------------------------------------------------------------------- C18
\* block reads that completed, counted from the polls
CompletedReads ==
  polls - (IF pc = "read" THEN 1 ELSE 0) - (IF stopReason = "interrupt" THEN 1 ELSE 0)

\* C18: throughout the capture loop and at each return the buffer is
\* append-only and holds whole blocks: its length is (completed block reads)
\* * BlockSize samples * 2 bytes, and its contents are the samples read so
\* far, in order, nothing changed or removed.
C18_BufferIsWholeBlocks ==
  (InLoop \/ Returned) =>
     /\ Len(audioBuffer) = CompletedReads * BlockSize * 2
     /\ HoldsAllRead(audioBuffer)

C18_Witness ==
  /\ Returned /\ stopReason = "interrupt"
  /\ CompletedReads >= 3
  /\ \E i \in 1..BlockSize : readLog[i] # 0
RECURSIVE MaxMean(_, _)
MaxMean(a, b) ==
  IF a >= b THEN evalLog[b].c
  ELSE LET r == MaxMean(a, b - 1) IN IF evalLog[b].c > r THEN evalLog[b].c ELSE r

Onsets == {i \in Evals : OnsetEval(evalLog[i])}

\* C20: while Recording maxNoiseFloor never decreases and is the largest
\* mean of the evaluations from the onset on; silenceCount is always in 0..6
\* and positive only if the latest evaluation's mean was strictly below
\* 0.5 * maxNoiseFloor.
C20_MaxIsRunningMaximum ==
  /\ recordingStarted <=> Onsets # {}
  /\ \A o \in Onsets :
       /\ maxNoiseFloor = MaxMean(o, Len(evalLog))
       /\ \A i \in Evals : i > o =>
            (evalLog[i].max = MaxMean(o, i - 1) /\ evalLog[i].max >= evalLog[i - 1].max)
  /\ silenceCount \in 0..6
  /\ silenceCount > 0 =>
       (evalLog # <<>> /\ 2 * evalLog[Len(evalLog)].c < maxNoiseFloor)

C20_Witness ==
  /\ recordingStarted /\ silenceCount > 0
  /\ \E i \in Evals : evalLog[i].rec /\ evalLog[i].c > evalLog[i].max
  /\ maxNoiseFloor > noiseFloor
====
